---- MODULE Spec2Model ----
(***************************************************************************)
(* Model of the interactive quiz runner of main.py: the three Question     *)
(* variants (ObjectiveQuestion, DumbQuestion, MultipleChoiceQuestion) with *)
(* their recursive prompt_answer, and Quiz with add_question and run.      *)
(*                                                                         *)
(* One step of the model is one invocation of a method body up to its next *)
(* blocking read or call boundary.  Standard input is an arbitrary stream: *)
(* every read either yields one line of Lines or finds the stream ended.   *)
(* Python values are modelled as strings so that == between values of      *)
(* different Python types is simply inequality: True, False and None are   *)
(* "True", "False", "None"; an attribute that was never assigned is NoAttr.*)
(* A line of input is a sequence of one-character strings.                 *)
(***************************************************************************)
EXTENDS Integers, Sequences, FiniteSets, TLC

(* ------------------------------ bounds -------------------------------- *)

\* Longest quiz that add_question builds.
MaxQuestions == 2

\* Number of times Quiz.run is invoked on the quiz.
MaxRuns == 2

\* Number of nested prompt_answer frames the interpreter's recursion limit
\* leaves room for.  CPython's default limit of 1000 leaves room for 995 of
\* them under Quiz.run and display; the model keeps the mechanism and scales
\* the number.
RecursionLimit == 3

\* Number of check_answer calls a caller makes between two runs.
MaxCalls == 2

(* --------------------------- Python values ---------------------------- *)

PyTrue == "True"
PyFalse == "False"
PyNone == "None"
NoAttr == "<no attribute>"
NoLine == <<"<no line>">>

\* Lines the input stream can deliver (without the trailing newline, which
\* input() strips): the yes/no answers in both cases, the empty line, a word,
\* an answer with a leading blank, and decimal integers below, inside and
\* above the ordinals of the choice lists, signed and blank-padded.
Lines ==
  { <<"y">>, <<"Y">>, <<"n">>, <<"N">>, <<>>, <<"a", "b", "c">>, <<" ", "y">>,
    <<"0">>, <<"1">>, <<"2">>, <<"3">>, <<"4">>, <<"-", "1">>, <<"+", "1">>,
    <<" ", "2", " ">> }

\* str.lower() on one character of the alphabet of Lines.
LowerChar(c) ==
  CASE c = "Y" -> "y"
    [] c = "N" -> "n"
    [] OTHER -> c

\* str.lower()
Lower(s) == [i \in 1..Len(s) |-> LowerChar(s[i])]

Digits == {"0", "1", "2", "3", "4", "5", "6", "7", "8", "9"}

DigitVal(c) ==
  CASE c = "0" -> 0 [] c = "1" -> 1 [] c = "2" -> 2 [] c = "3" -> 3
    [] c = "4" -> 4 [] c = "5" -> 5 [] c = "6" -> 6 [] c = "7" -> 7
    [] c = "8" -> 8 [] c = "9" -> 9

RECURSIVE LStrip(_)
LStrip(s) == IF s # <<>> /\ Head(s) = " " THEN LStrip(Tail(s)) ELSE s

RECURSIVE RStrip(_)
RStrip(s) ==
  IF s # <<>> /\ s[Len(s)] = " " THEN RStrip(SubSeq(s, 1, Len(s) - 1)) ELSE s

RECURSIVE DecimalValue(_)
DecimalValue(s) ==
  IF s = <<>> THEN 0
  ELSE 10 * DecimalValue(SubSeq(s, 1, Len(s) - 1)) + DigitVal(s[Len(s)])

\* int(answer) on a str: surrounding blanks are ignored, one sign is allowed,
\* the rest must be a non-empty run of decimal digits; anything else raises
\* ValueError (ok = FALSE).
ParseInt(s) ==
  LET t == RStrip(LStrip(s))
      signed == t # <<>> /\ Head(t) \in {"+", "-"}
      body == IF signed THEN Tail(t) ELSE t
      wellFormed == body # <<>> /\ \A i \in 1..Len(body) : body[i] \in Digits
  IN IF ~wellFormed THEN [ok |-> FALSE, value |-> 0]
     ELSE [ok |-> TRUE,
           value |-> IF signed /\ Head(t) = "-" THEN 0 - DecimalValue(body)
                     ELSE DecimalValue(body)]

(* ----------------------------- questions ------------------------------ *)

\* Mutant of ObjectiveQuestion: the constructor presets the answer to False.
ObjectiveQuestionPreset(correct) ==
  [kind |-> "Objective", correct_answer |-> correct, choices |-> <<>>,
   answer |-> PyFalse]

\* ObjectiveQuestion.__init__: answer starts as None.
ObjectiveQuestion(correct) ==
  [kind |-> "Objective", correct_answer |-> correct, choices |-> <<>>,
   answer |-> PyNone]

\* DumbQuestion has no __init__: it stores nothing.
DumbQuestion ==
  [kind |-> "Dumb", correct_answer |-> NoAttr, choices |-> <<>>,
   answer |-> NoAttr]

\* MultipleChoiceQuestion.__init__ assigns prompt, correct_answer and choices
\* and does not assign answer.
MultipleChoiceQuestion(choices, correct) ==
  [kind |-> "MultipleChoice", correct_answer |-> correct, choices |-> choices,
   answer |-> NoAttr]

\* The questions the driver code constructs: both yes/no keys, the
\* placeholder, a three-choice question, one whose correct answer is not
\* among its choices and one without choices.
QuestionPool ==
  { ObjectiveQuestion(PyTrue), ObjectiveQuestion(PyFalse), DumbQuestion,
    MultipleChoiceQuestion(<<"a", "b", "c">>, "b"),
    MultipleChoiceQuestion(<<"a", "b">>, "z"),
    MultipleChoiceQuestion(<<>>, "a") }

\* Mutant of ObjectiveMatch: the match without answer.lower().
ObjectiveMatchCaseSensitive(answer) ==
  CASE answer = <<"y">> -> [ok |-> TRUE, value |-> PyTrue]
    [] answer = <<"n">> -> [ok |-> TRUE, value |-> PyFalse]
    [] OTHER -> [ok |-> FALSE, value |-> PyNone]

\* The match statement of ObjectiveQuestion.prompt_answer: the value the line
\* records, or ok = FALSE for the default case.
ObjectiveMatch(answer) ==
  LET low == Lower(answer)
  IN CASE low = <<"y">> -> [ok |-> TRUE, value |-> PyTrue]
       [] low = <<"n">> -> [ok |-> TRUE, value |-> PyFalse]
       [] OTHER -> [ok |-> FALSE, value |-> PyNone]

\* Mutant of ChoiceLookup: the ordinal typed is recorded, not the choice text.
ChoiceLookupOrdinal(choices, answer) ==
  LET n == ParseInt(answer)
  IN IF ~n.ok \/ n.value < 1 \/ n.value > Len(choices)
     THEN [ok |-> FALSE, value |-> NoAttr]
     ELSE [ok |-> TRUE, value |-> ToString(n.value)]

\* The try block of MultipleChoiceQuestion.prompt_answer: int(), the range
\* check and the lookup of the choice text.
ChoiceLookup(choices, answer) ==
  LET n == ParseInt(answer)
  IN IF ~n.ok \/ n.value < 1 \/ n.value > Len(choices)
     THEN [ok |-> FALSE, value |-> NoAttr]
     ELSE [ok |-> TRUE, value |-> choices[n.value]]

\* What one question's prompt_answer makes of one line.
Validate(q, answer) ==
  IF q.kind = "Objective" THEN ObjectiveMatch(answer)
  ELSE ChoiceLookup(q.choices, answer)

\* Mutant of check_answer: the comparison consumes the recorded answer.
check_answer_consuming(q) ==
  [result |-> IF q.kind = "Dumb" THEN TRUE ELSE q.answer = q.correct_answer,
   raises |-> q.kind = "MultipleChoice" /\ q.answer = NoAttr,
   self |-> IF q.kind = "Dumb" THEN q ELSE [q EXCEPT !.answer = PyNone]]

\* check_answer of the three variants: the value returned, whether it raises
\* (the comparison reads self.answer, which a MultipleChoiceQuestion does not
\* have before a line was accepted), and the object afterwards.
check_answer(q) ==
  [result |-> IF q.kind = "Dumb" THEN TRUE ELSE q.answer = q.correct_answer,
   raises |-> q.kind = "MultipleChoice" /\ q.answer = NoAttr,
   self |-> q]

\* Mutant of Increment: the sum is computed and not stored.
IncrementDropped(n) == n

\* self.score += 1
Increment(n) == n + 1

\* Mutant of add_question: the question is inserted at the front.
add_question_front(qs, q) == <<q>> \o qs

\* self.questions.append(question)
add_question(qs, q) == Append(qs, q)

(* ------------------------------- state -------------------------------- *)

VARIABLES
  questions,   \* Quiz.questions: the question objects, in list order
  score,       \* Quiz.score
  pc,          \* where the program is: "idle", "display", "prompt",
               \* "dumb_input", "check", "report", "failed"
  idx,         \* position of the for loop of Quiz.run (1-based)
  depth,       \* number of prompt_answer frames on the stack
  line,        \* the local variable answer of the innermost frame: the line
               \* its input() returned
  error,       \* the exception that ended the program, when pc = "failed"
  runs,        \* number of Quiz.run invocations started
  shown,       \* indices of the questions displayed in the current run, in order
  nPrompt,     \* output of the current display: question prompts printed
  nList,       \* output of the current display: choice listings printed
  listing,     \* output of the current display: the lines of the last choice
               \* listing printed
  nRead,       \* lines the current display has read
  nErr,        \* output of the current display: error messages printed
  seen,        \* per question: results check_answer returned since its last
               \* accepted line
  reported,    \* the last results report: score and total printed
  added,       \* the questions as constructed, in the order of the
               \* add_question calls
  completed,   \* indices of the questions whose display returned in the
               \* current run, in order
  checked,     \* indices of the questions whose check_answer the current run
               \* evaluated, in order
  calls        \* check_answer calls made by a caller since the last run

vars ==
  << questions, score, pc, idx, depth, line, error, runs, shown, nPrompt,
     nList, listing,
     nRead, nErr, seen, reported, added, completed, checked, calls >>

NoReport == [score |-> -1, total |-> -1]

\* Quiz.__init__
Init ==
  /\ questions = <<>>
  /\ score = 0
  /\ pc = "idle"
  /\ idx = 0
  /\ depth = 0
  /\ line = NoLine
  /\ error = "none"
  /\ runs = 0
  /\ shown = <<>>
  /\ nPrompt = 0
  /\ nList = 0
  /\ listing = <<>>
  /\ nRead = 0
  /\ nErr = 0
  /\ seen = <<>>
  /\ reported = NoReport
  /\ added = <<>>
  /\ completed = <<>>
  /\ checked = <<>>
  /\ calls = 0

Current == questions[idx]

(* ------------------------------ actions ------------------------------- *)

\* Quiz.add_question: appends a newly constructed question.  The driver
\* populates a quiz before it runs it.
AddQuestion(q) ==
  /\ pc = "idle"
  /\ runs = 0
  /\ Len(questions) < MaxQuestions
  /\ questions' = add_question(questions, q)
  /\ added' = Append(added, q)
  /\ seen' = Append(seen, {})
  /\ UNCHANGED << score, pc, idx, depth, line, error, runs, shown, nPrompt,
                  nList, listing,
                  nRead, nErr, reported, completed, checked, calls >>

\* Mutant of Run: run starts by resetting the score.
RunResetting ==
  /\ pc = "idle"
  /\ runs < MaxRuns
  /\ runs' = runs + 1
  /\ idx' = 1
  /\ shown' = <<>>
  /\ completed' = <<>>
  /\ checked' = <<>>
  /\ calls' = 0
  /\ score' = 0
  /\ pc' = IF Len(questions) = 0 THEN "report" ELSE "display"
  /\ UNCHANGED << questions, depth, line, error, nPrompt, nList, listing,
                  nRead, nErr, seen, reported, added >>

\* Quiz.run up to the first iteration of its loop: prints the intro.
Run ==
  /\ pc = "idle"
  /\ runs < MaxRuns
  /\ runs' = runs + 1
  /\ idx' = 1
  /\ shown' = <<>>
  /\ completed' = <<>>
  /\ checked' = <<>>
  /\ calls' = 0
  /\ pc' = IF Len(questions) = 0 THEN "report" ELSE "display"
  /\ UNCHANGED << questions, score, depth, line, error, nPrompt, nList, listing,
                  nRead,
                  nErr, seen, reported, added >>

\* Mutant of Display: a choice question without choices returns from display
\* without prompting.
DisplaySkippingEmpty ==
  /\ pc = "display"
  /\ shown' = Append(shown, idx)
  /\ nPrompt' = 1
  /\ nList' = 0
  /\ listing' = <<>>
  /\ nRead' = 0
  /\ nErr' = 0
  /\ IF Current.kind = "Dumb"
     THEN /\ pc' = "dumb_input"
          /\ depth' = 0
     ELSE IF Current.kind = "MultipleChoice" /\ Current.choices = <<>>
          THEN /\ pc' = "check"
               /\ depth' = 0
          ELSE /\ pc' = "prompt"
               /\ depth' = 1
  /\ UNCHANGED << questions, score, idx, line, error, runs, seen, reported,
                  added, completed, checked, calls >>

\* question.display() up to its first read: prints the prompt (or the fixed
\* message) and, for the prompting variants, enters prompt_answer.
Display ==
  /\ pc = "display"
  /\ shown' = Append(shown, idx)
  /\ nPrompt' = 1
  /\ nList' = 0
  /\ listing' = <<>>
  /\ nRead' = 0
  /\ nErr' = 0
  /\ IF Current.kind = "Dumb"
     THEN /\ pc' = "dumb_input"
          /\ depth' = 0
     ELSE /\ pc' = "prompt"
          /\ depth' = 1
  /\ UNCHANGED << questions, score, idx, line, error, runs, seen, reported,
                  added, completed, checked, calls >>

\* Mutant of Listing: the choices are listed for the first prompt of a display
\* only.
ListingOnce ==
  IF Current.kind = "MultipleChoice" /\ nList = 0 THEN 1 ELSE 0

\* The choice listing printed at the top of MultipleChoiceQuestion.prompt_answer.
Listing == IF Current.kind = "MultipleChoice" THEN 1 ELSE 0

\* The lines of one listing: enumerate(self.choices), each printed as
\* "{i+1}. {choice}".
ChoiceListing(choices) ==
  [i \in 1..Len(choices) |-> [ordinal |-> i, text |-> choices[i]]]

\* The last listing on the terminal after prompt_answer has printed its own.
Printed ==
  IF Current.kind = "MultipleChoice" THEN ChoiceListing(Current.choices)
  ELSE listing

\* prompt_answer, the line is valid: the answer is recorded, every frame
\* returns and display returns.
PromptAccept(l) ==
  /\ pc = "prompt"
  /\ Validate(Current, l).ok
  /\ line' = l
  /\ nList' = nList + Listing
  /\ listing' = Printed
  /\ nRead' = nRead + 1
  /\ questions' = [questions EXCEPT ![idx].answer = Validate(Current, l).value]
  /\ seen' = [seen EXCEPT ![idx] = {}]
  /\ depth' = 0
  /\ completed' = Append(completed, idx)
  /\ pc' = "check"
  /\ UNCHANGED << score, idx, error, runs, shown, nPrompt, nErr, reported,
                  added, checked, calls >>

\* Mutant of PromptReject: the default branch records the invalid line as
\* False before it prompts again.
PromptRejectRecording(l) ==
  /\ pc = "prompt"
  /\ ~Validate(Current, l).ok
  /\ depth < RecursionLimit
  /\ line' = NoLine
  /\ nList' = nList + Listing
  /\ listing' = Printed
  /\ nRead' = nRead + 1
  /\ nErr' = nErr + 1
  /\ depth' = depth + 1
  /\ questions' = [questions EXCEPT ![idx].answer = PyFalse]
  /\ UNCHANGED << score, pc, idx, error, runs, shown, nPrompt, seen,
                  reported, added, completed, checked, calls >>

\* prompt_answer, the line is invalid and the stack has room: the error
\* message is printed and prompt_answer calls itself.  The new frame has a
\* local answer of its own, unassigned until its input() returns.
PromptReject(l) ==
  /\ pc = "prompt"
  /\ ~Validate(Current, l).ok
  /\ depth < RecursionLimit
  /\ line' = NoLine
  /\ nList' = nList + Listing
  /\ listing' = Printed
  /\ nRead' = nRead + 1
  /\ nErr' = nErr + 1
  /\ depth' = depth + 1
  /\ UNCHANGED << questions, score, pc, idx, error, runs, shown, nPrompt, seen,
                  reported, added, completed, checked, calls >>

\* prompt_answer, the line is invalid in the deepest frame the recursion limit
\* allows: RecursionError is raised, which nothing catches.  The yes/no
\* variant has printed its message before the call that raises; in the choice
\* variant the interpreter may run out of depth while it raises ValueError,
\* before the handler prints.
PromptOverflow(l) ==
  /\ pc = "prompt"
  /\ ~Validate(Current, l).ok
  /\ depth = RecursionLimit
  /\ line' = l
  /\ nList' = nList + Listing
  /\ listing' = Printed
  /\ nRead' = nRead + 1
  /\ nErr' \in IF Current.kind = "Objective" THEN {nErr + 1}
               ELSE {nErr, nErr + 1}
  /\ pc' = "failed"
  /\ error' = "RecursionError"
  /\ UNCHANGED << questions, score, idx, depth, runs, shown, nPrompt, seen,
                  reported, added, completed, checked, calls >>

\* Mutant of InputEOF: the end of the stream is swallowed and display returns.
InputEOFSwallowed ==
  /\ pc \in {"prompt", "dumb_input"}
  /\ nList' = IF pc = "prompt" THEN nList + Listing ELSE nList
  /\ listing' = IF pc = "prompt" THEN Printed ELSE listing
  /\ pc' = "check"
  /\ UNCHANGED << questions, score, idx, depth, line, error, runs, shown,
                  nPrompt, nRead, nErr, seen, reported, added, completed,
                  checked, calls >>

\* input() finds the stream ended: EOFError, which nothing catches.
InputEOF ==
  /\ pc \in {"prompt", "dumb_input"}
  /\ nList' = IF pc = "prompt" THEN nList + Listing ELSE nList
  /\ listing' = IF pc = "prompt" THEN Printed ELSE listing
  /\ pc' = "failed"
  /\ error' = "EOFError"
  /\ UNCHANGED << questions, score, idx, depth, line, runs, shown, nPrompt,
                  nRead, nErr, seen, reported, added, completed, checked,
                  calls >>

\* Mutant of DumbInput: an empty line is not taken for an answer.
DumbInputNonEmpty(l) ==
  /\ pc = "dumb_input"
  /\ l # <<>>
  /\ line' = l
  /\ nRead' = nRead + 1
  /\ completed' = Append(completed, idx)
  /\ pc' = "check"
  /\ UNCHANGED << questions, score, idx, depth, error, runs, shown, nPrompt,
                  nList, listing, nErr, seen, reported, added, checked, calls >>

\* DumbQuestion.display: reads one line and discards it.
DumbInput(l) ==
  /\ pc = "dumb_input"
  /\ line' = l
  /\ nRead' = nRead + 1
  /\ completed' = Append(completed, idx)
  /\ pc' = "check"
  /\ UNCHANGED << questions, score, idx, depth, error, runs, shown, nPrompt,
                  nList, listing, nErr, seen, reported, added, checked, calls >>

\* The rest of one iteration of the loop of Quiz.run: the blank line,
\* check_answer, the increment, and the step to the next question or out of
\* the loop.
Check ==
  /\ pc = "check"
  /\ LET r == check_answer(Current)
     IN /\ questions' = [questions EXCEPT ![idx] = r.self]
        /\ seen' = [seen EXCEPT ![idx] = @ \cup {r.result}]
        /\ score' = IF r.result THEN Increment(score) ELSE score
  /\ idx' = idx + 1
  /\ pc' = IF idx < Len(questions) THEN "display" ELSE "report"
  /\ line' = NoLine
  /\ nPrompt' = 0
  /\ nList' = 0
  /\ listing' = <<>>
  /\ nRead' = 0
  /\ nErr' = 0
  /\ checked' = Append(checked, idx)
  /\ UNCHANGED << depth, error, runs, shown, reported, added, completed,
                  calls >>

\* The two prints after the loop of Quiz.run; run returns.
Report ==
  /\ pc = "report"
  /\ reported' = [score |-> score, total |-> Len(questions)]
  /\ pc' = "idle"
  /\ idx' = 0
  /\ UNCHANGED << questions, score, depth, line, error, runs, shown, nPrompt,
                  nList, listing,
                  nRead, nErr, seen, added, completed, checked, calls >>

\* A caller invokes check_answer on a question of the quiz outside run.
CheckAnswerAgain(i) ==
  /\ pc = "idle"
  /\ i \in 1..Len(questions)
  /\ calls < MaxCalls
  /\ calls' = calls + 1
  /\ LET r == check_answer(questions[i])
     IN IF r.raises
        THEN /\ pc' = "failed"
             /\ error' = "AttributeError"
             /\ UNCHANGED << questions, seen >>
        ELSE /\ questions' = [questions EXCEPT ![i] = r.self]
             /\ seen' = [seen EXCEPT ![i] = @ \cup {r.result}]
             /\ UNCHANGED << pc, error >>
  /\ UNCHANGED << score, idx, depth, line, runs, shown, nPrompt, nList, listing,
                  nRead,
                  nErr, reported, added, completed, checked >>

Next ==
  \/ \E q \in QuestionPool : AddQuestion(q)
  \/ Run
  \/ Display
  \/ \E l \in Lines : PromptAccept(l)
  \/ \E l \in Lines : PromptReject(l)
  \/ \E l \in Lines : PromptOverflow(l)
  \/ InputEOF
  \/ \E l \in Lines : DumbInput(l)
  \/ Check
  \/ Report
  \/ \E i \in 1..MaxQuestions : CheckAnswerAgain(i)

Spec == Init /\ [][Next]_vars

(* ------------------------- shared vocabulary -------------------------- *)

InLoop == pc \in {"display", "prompt", "dumb_input", "check"}

Prompting == InLoop /\ Current.kind # "Dumb"

ValidYesNo == { <<"y">>, <<"Y">>, <<"n">>, <<"N">> }

\* The boolean a valid yes/no line stands for.
YesNoMeaning(l) == IF l \in { <<"y">>, <<"Y">> } THEN PyTrue ELSE PyFalse

(* ------------------------------- C1 ----------------------------------- *)

\* C1: an ObjectiveQuestion display fed k invalid lines and then a valid one
\* reads exactly k+1 lines, prints the error message exactly k times and
\* completes on the valid line only: while it is still prompting it has
\* printed one message per line read, when it has completed the last line
\* read is valid and is the only one without a message, and as long as lines
\* keep coming it ends in no other way.
C1_RepromptOncePerInvalidLine ==
  (idx \in 1..Len(questions) /\ Current.kind = "Objective") =>
    /\ pc = "prompt" => (nRead = nErr /\ depth = nRead + 1)
    /\ pc = "check" => (nRead = nErr + 1 /\ line \in ValidYesNo)
    /\ pc = "failed" => error = "EOFError"

(* ------------------------------- C2 ----------------------------------- *)

\* C2: given y, Y, n or N as the first line, ObjectiveQuestion.display
\* completes after that one line (the line is accepted, not rejected),
\* records True for y/Y and False for n/N, and every check_answer after it
\* returns exactly whether the recorded boolean equals correct_answer.
C2_ValidYesNoFirstLine ==
  /\ (pc = "prompt" /\ Current.kind = "Objective" /\ nRead = 0) =>
       \A l \in ValidYesNo :
         /\ ENABLED PromptAccept(l)
         /\ ~ENABLED PromptReject(l)
         /\ ~ENABLED PromptOverflow(l)
  /\ (pc = "check" /\ Current.kind = "Objective" /\ nRead = 1) =>
       /\ line \in ValidYesNo
       /\ nErr = 0
       /\ Current.answer = YesNoMeaning(line)
  /\ \A i \in 1..Len(questions) :
       (questions[i].kind = "Objective" /\ questions[i].answer # PyNone) =>
         seen[i] \subseteq {questions[i].answer = questions[i].correct_answer}

\* C2 witness: an uppercase N was the first line of a question whose correct
\* answer is True, after an earlier question with correct answer False
\* recorded True and had check_answer return False.
C2_Witness ==
  /\ pc = "check" /\ nRead = 1 /\ line = <<"N">>
  /\ Current = [ObjectiveQuestion(PyTrue) EXCEPT !.answer = PyFalse]
  /\ \E i \in 1..Len(questions) :
       /\ questions[i] = [ObjectiveQuestion(PyFalse) EXCEPT !.answer = PyTrue]
       /\ seen[i] = {FALSE}

(* ------------------------------- C3 ----------------------------------- *)

\* C3: in a MultipleChoiceQuestion with N choices a line that parses as an
\* integer k in 1..N completes display and records the text choices[k]
\* (1-based); any other line is rejected with the error message, records
\* nothing and leads to a new prompt.
C3_ChoiceInputHandling ==
  (idx \in 1..Len(questions) /\ Current.kind = "MultipleChoice"
     /\ line # NoLine) =>
    LET n == ParseInt(line)
    IN IF n.ok /\ n.value >= 1 /\ n.value <= Len(Current.choices)
       THEN pc = "check" /\ Current.answer = Current.choices[n.value]
       ELSE pc = "prompt" /\ nErr = nRead

(* ------------------------------- C4 ----------------------------------- *)

\* A question counts as answered correctly when its recorded answer equals
\* its correct answer; the placeholder question always counts.
Correct(q) == q.kind = "Dumb" \/ q.answer = q.correct_answer

CorrectAmong(S) == Cardinality({i \in S : Correct(questions[i])})

\* C4, on the first run of a quiz: the score is 0 before the run and at every
\* moment equals the number of questions checked so far that were answered
\* correctly, so it lies in 0..number of questions; the report prints the
\* number of correctly answered questions out of the number of questions.
C4_ScoreCountsCorrect ==
  runs <= 1 =>
    /\ runs = 0 => score = 0
    /\ score = CorrectAmong({checked[k] : k \in 1..Len(checked)})
    /\ score >= 0 /\ score <= Len(questions)
    /\ pc = "report" => score = CorrectAmong(1..Len(questions))
    /\ reported # NoReport =>
         /\ reported.score = CorrectAmong(1..Len(questions))
         /\ reported.total = Len(questions)

\* C4, in every run: the score only ever changes by +1, in the step that
\* evaluates check_answer of the current question, and only when that
\* question was answered correctly; each question is checked once per run.
C4_ScoreStep ==
  /\ score' # score =>
       /\ score' = score + 1
       /\ pc = "check"
       /\ Correct(Current)
       /\ checked' = Append(checked, idx)
  /\ Cardinality({checked'[k] : k \in 1..Len(checked')}) = Len(checked')

C4_Score == []C4_ScoreCountsCorrect /\ [][C4_ScoreStep]_vars

\* C4 witness: the first run of a choice question followed by a yes/no
\* question, both answered correctly, is about to report 2 out of 2.
C4_Witness ==
  /\ pc = "report" /\ runs = 1 /\ score = 2 /\ Len(questions) = 2
  /\ questions[1].kind = "MultipleChoice" /\ questions[2].kind = "Objective"

(* ------------------------------- C5 ----------------------------------- *)

\* A question as it was constructed.
AsConstructed(q) ==
  [q EXCEPT !.answer = IF q.kind = "Objective" THEN PyNone ELSE NoAttr]

Ordinals(s) == s = [k \in 1..Len(s) |-> k]

\* C5: the list holds the questions in the order of the add_question calls;
\* within a run they are displayed in list order without repetition; a
\* question is displayed only when every earlier one has had its display
\* return and its check_answer evaluated; when the report is reached every
\* question has been displayed and checked exactly once.
C5_DisplayOrder ==
  /\ [k \in 1..Len(questions) |-> AsConstructed(questions[k])] = added
  /\ Ordinals(shown) /\ Ordinals(completed) /\ Ordinals(checked)
  /\ Len(shown) <= Len(questions)
  /\ Len(checked) <= Len(completed)
  /\ Len(completed) <= Len(shown)
  /\ Len(shown) <= Len(checked) + 1
  /\ pc = "report" =>
       /\ Len(shown) = Len(questions)
       /\ Len(checked) = Len(questions)

\* C5 witness: in a quiz of two different questions the second is on display
\* after the first was displayed, answered and checked.
C5_Witness ==
  /\ pc = "prompt" /\ Len(questions) = 2
  /\ added[1] # added[2]
  /\ shown = <<1, 2>> /\ completed = <<1>> /\ checked = <<1>>

(* ------------------------------- C6 ----------------------------------- *)

\* C6: malformed input to a yes/no or choice question is always recovered by
\* prompting again: the program never fails with an invalid line in hand.
C6_MalformedInputNeverFatal ==
  ~( /\ pc = "failed"
     /\ idx \in 1..Len(questions)
     /\ Current.kind # "Dumb"
     /\ line # NoLine
     /\ ~Validate(Current, line).ok )

(* ------------------------------- C7 ----------------------------------- *)

\* A check_answer call made by a caller: it leaves the score, every question
\* (recorded and correct answers), the input stream and the last report as
\* they were.  The call made by Quiz.run leaves every question as it was.
C7_CheckAnswerStep ==
  /\ calls' = calls + 1 =>
       /\ score' = score
       /\ questions' = questions
       /\ nRead' = nRead
       /\ line' = line
       /\ reported' = reported
  /\ pc = "check" =>
       /\ questions' = questions
       /\ nRead' = 0

\* C7: check_answer is idempotent and free of side effects: all the results
\* it returns for a question after one display are the same, and a call
\* changes neither the question nor the score and reads no input.
C7_CheckAnswerIdempotent ==
  /\ [](\A i \in 1..Len(seen) : Cardinality(seen[i]) <= 1)
  /\ [][C7_CheckAnswerStep]_vars

\* C7 witness: after a run that answered a choice question correctly, a
\* caller has called its check_answer twice more.
C7_Witness ==
  /\ pc = "idle" /\ runs = 1 /\ calls = 2
  /\ Len(questions) = 1
  /\ questions[1].kind = "MultipleChoice"
  /\ questions[1].answer = questions[1].correct_answer
  /\ seen[1] = {TRUE}

(* ------------------------------- C8 ----------------------------------- *)

\* What an accepted line records.
Meaning(q, l) ==
  IF q.kind = "Objective" THEN YesNoMeaning(l)
  ELSE q.choices[ParseInt(l).value]

\* A line was read by a prompt and the display did not complete: the line
\* was rejected.
RejectedStep == pc = "prompt" /\ nRead' = nRead + 1 /\ pc' # "check"

AcceptedStep == pc = "prompt" /\ pc' = "check"

C8_LineStep ==
  /\ RejectedStep =>
       /\ score' = score
       /\ questions' = questions
       /\ seen' = seen
       /\ reported' = reported
       /\ idx' = idx
  /\ AcceptedStep =>
       /\ score' = score
       /\ questions' = [questions EXCEPT ![idx].answer = Meaning(Current, line')]
  /\ (pc = "check" /\ Current.kind # "Dumb") =>
       score' = score + (IF Meaning(Current, line) = Current.correct_answer
                         THEN 1 ELSE 0)

\* C8: a rejected line leaves the score and the recorded answer of every
\* question unchanged; the answer a display records and the increment that
\* follows are functions of the accepted line alone, whatever number of
\* rejected lines came before it.
C8_RejectedLineChangesNothing == [][C8_LineStep]_vars

\* C8 witness: the second question is prompting again after two rejected
\* lines, and the point earned by the first question is still there.
C8_Witness ==
  /\ pc = "prompt" /\ idx = 2 /\ nErr = 2 /\ nRead = 2
  /\ score = 1 /\ runs = 1
  /\ questions[1].kind = "Objective" /\ questions[1].answer = PyTrue

(* ------------------------------- C9 ----------------------------------- *)

Unset(a) == a \in {PyNone, NoAttr}

Answerable(i) == questions[i].kind # "Dumb"

\* Before and during the first run, a question's answer is unset exactly as
\* long as its display has not returned.
C9_UnsetBeforeCompletion ==
  runs <= 1 =>
    \A i \in 1..Len(questions) :
      Answerable(i) =>
        (Unset(questions[i].answer) <=>
           i \notin {completed[k] : k \in 1..Len(completed)})

\* An unset answer becomes set only in the step in which the question's own
\* prompt accepts a valid line.
C9_SetStep ==
  \A i \in 1..Len(questions) :
    (Answerable(i) /\ Unset(questions[i].answer)
       /\ ~Unset(questions'[i].answer)) =>
      /\ AcceptedStep
      /\ i = idx
      /\ Validate(questions[i], line').ok

\* C9: the answer of a yes/no or choice question is unset from construction
\* until its display completes, also while invalid lines are rejected, and
\* becomes set only at the step that accepts a valid line.
C9_AnswerUnsetUntilDisplayed ==
  []C9_UnsetBeforeCompletion /\ [][C9_SetStep]_vars

\* C9 witness: in the first run the second question has rejected a line and
\* is still unset, while the first, completed, question is set.
C9_Witness ==
  /\ runs = 1 /\ pc = "prompt" /\ idx = 2 /\ nErr = 1
  /\ Unset(questions[2].answer)
  /\ Answerable(1) /\ ~Unset(questions[1].answer)

(* ------------------------------- C10 ---------------------------------- *)

C10_PlaceholderState ==
  /\ pc = "dumb_input" =>
       /\ nRead = 0
       /\ \A l \in Lines : ENABLED DumbInput(l)
  /\ (pc = "check" /\ Current.kind = "Dumb") => (nRead = 1 /\ nErr = 0)
  /\ \A i \in 1..Len(questions) :
       questions[i].kind = "Dumb" => seen[i] \subseteq {TRUE}
  /\ (pc = "report" /\ runs = 1 /\ Len(questions) = 1
        /\ questions[1].kind = "Dumb") => score = 1

C10_PlaceholderStep ==
  (pc = "check" /\ Current.kind = "Dumb") => score' = score + 1

\* C10: a DumbQuestion display reads exactly one line, accepts whatever the
\* line is without an error message, its check_answer always returns true,
\* and it adds exactly 1 to the score: a first run of a quiz holding one
\* placeholder question reports score 1.
C10_PlaceholderAlwaysCorrect ==
  []C10_PlaceholderState /\ [][C10_PlaceholderStep]_vars

\* C10 witness: the first run of a quiz of one placeholder question is about
\* to report, with score 1.
C10_Witness ==
  /\ pc = "report" /\ runs = 1 /\ score = 1
  /\ questions = <<DumbQuestion>>

(* ------------------------------- C11 ---------------------------------- *)

\* During a run after the first, the score is what the previous run reported
\* plus the questions this run has checked and found correct; between runs
\* the score is what the last run reported.
C11_ScoreCarriedOver ==
  /\ (runs >= 2 /\ pc # "idle") =>
       score = reported.score
                 + CorrectAmong({checked[k] : k \in 1..Len(checked)})
  /\ (runs >= 1 /\ pc = "idle") => reported.score = score

\* Starting a run leaves the score as it is; the report of a run after the
\* first comes after all questions were displayed in order, and prints the
\* previous report's score plus the number of questions this run answered
\* correctly, out of the unchanged number of questions.
C11_RerunStep ==
  /\ (pc = "idle" /\ runs' = runs + 1) => score' = score
  /\ (pc = "report" /\ runs >= 2 /\ pc' = "idle") =>
       /\ Ordinals(shown) /\ Len(shown) = Len(questions)
       /\ reported'.score = reported.score + CorrectAmong(1..Len(questions))
       /\ reported'.total = Len(questions)
       /\ reported'.total = reported.total

\* C11: a second Quiz.run on the same quiz replays all questions in order and
\* adds to the score without resetting it, while the total reported stays the
\* number of questions, so the reported score can exceed the total.
C11_RerunAccumulates == []C11_ScoreCarriedOver /\ [][C11_RerunStep]_vars

\* C11 witness: the second run of a two-question quiz has reported 4 out of 2.
C11_Witness ==
  /\ pc = "idle" /\ runs = 2
  /\ reported = [score |-> 4, total |-> 2]

(* ------------------------------- C12 ---------------------------------- *)

\* C12: Quiz.run neither stops early nor skips: the report comes only after
\* every question was displayed and checked, and a run whose choice questions
\* all have choices and whose input stream keeps delivering lines, a valid
\* one for each question among them, does not end before the report.
C12_NoEarlyTermination ==
  /\ pc = "report" =>
       /\ Len(shown) = Len(questions)
       /\ Len(checked) = Len(questions)
  /\ (pc = "failed" /\ idx \in 1..Len(questions)) =>
       \/ error = "EOFError"
       \/ Current.kind = "MultipleChoice" /\ Current.choices = <<>>

(* ------------------------------- C13 ---------------------------------- *)

Elements(s) == {s[k] : k \in 1..Len(s)}

Unwinnable(q) ==
  q.kind = "MultipleChoice" /\ q.correct_answer \notin Elements(q.choices)

C13_AnswerIsAChoice ==
  \A i \in 1..Len(questions) :
    questions[i].kind = "MultipleChoice" =>
      /\ questions[i].answer # NoAttr =>
           questions[i].answer \in Elements(questions[i].choices)
      /\ Unwinnable(questions[i]) => seen[i] \subseteq {FALSE}

C13_UnwinnableStep ==
  (pc = "check" /\ Unwinnable(Current)) => score' = score

\* C13: the answer a MultipleChoiceQuestion records is always one of its
\* choices; so when correct_answer is not among the choices, check_answer
\* returns false after every accepted line and the question never adds to
\* the score.
C13_AnswerAmongChoices ==
  []C13_AnswerIsAChoice /\ [][C13_UnwinnableStep]_vars

\* C13 witness: a question with choices a, b and correct answer z was
\* answered b in a run, checked there and once more afterwards, and the score
\* is still 0.
C13_Witness ==
  /\ pc = "idle" /\ runs = 1 /\ calls = 1 /\ score = 0
  /\ questions =
       << [MultipleChoiceQuestion(<<"a", "b">>, "z") EXCEPT !.answer = "b"] >>
  /\ seen[1] = {FALSE}

(* ------------------------------- C14 ---------------------------------- *)

EmptyChoice(q) == q.kind = "MultipleChoice" /\ q.choices = <<>>

\* C14: a MultipleChoiceQuestion without choices can be constructed and
\* added; it rejects every line, its display never returns and it never
\* records an answer; a run of a quiz that holds it gets no further than this
\* question: no later question is displayed, no report is printed and run
\* does not return.
C14_EmptyChoicesUnanswerable ==
  /\ (pc = "idle" /\ runs = 0 /\ Len(questions) < MaxQuestions) =>
       ENABLED AddQuestion(MultipleChoiceQuestion(<<>>, "a"))
  /\ \A i \in 1..Len(questions) :
       EmptyChoice(questions[i]) =>
         /\ questions[i].answer = NoAttr
         /\ i \notin Elements(completed)
         /\ Len(shown) <= i
         /\ pc # "report"
         /\ reported = NoReport
         /\ runs >= 1 => pc # "idle"
         /\ (pc = "prompt" /\ idx = i) =>
              \A l \in Lines :
                /\ ~ENABLED PromptAccept(l)
                /\ ENABLED PromptReject(l) \/ ENABLED PromptOverflow(l)

\* C14 witness: the second question of a quiz has no choices and has rejected
\* two lines, after the first question earned a point.
C14_Witness ==
  /\ pc = "prompt" /\ idx = 2 /\ EmptyChoice(questions[2])
  /\ nErr = 2 /\ nRead = 2 /\ score = 1

(* ------------------------------- C15 ---------------------------------- *)

\* The step of a prompt that reads no line: input() found the stream ended.
EndOfInputStep ==
  /\ pc \in {"prompt", "dumb_input"}
  /\ nRead' = nRead

\* The end of the stream during a prompt ends the program with EOFError and
\* records nothing.
C15_EndOfInputStep ==
  EndOfInputStep =>
    /\ pc' = "failed"
    /\ error' = "EOFError"
    /\ questions' = questions
    /\ score' = score
    /\ reported' = reported
    /\ shown' = shown

\* After EOFError nothing more happens: the question on display has not
\* completed, no later question was displayed, this run has printed no
\* report, and the score is what it was before the run plus the questions the
\* run had checked and found correct.  Every prompt can meet the end of the
\* stream.
C15_AfterEndOfInput ==
  /\ pc \in {"prompt", "dumb_input"} => ENABLED InputEOF
  /\ (pc = "failed" /\ error = "EOFError") =>
       /\ ~ENABLED Next
       /\ idx \notin Elements(completed)
       /\ Len(shown) = idx
       /\ Len(checked) = idx - 1
       /\ runs = 1 => reported = NoReport
       /\ (runs = 1 /\ Answerable(idx)) => Unset(Current.answer)
       /\ score = (IF runs >= 2 THEN reported.score ELSE 0)
                    + CorrectAmong(Elements(checked))

\* C15: input-stream exhaustion is not handled: it ends the prompt without a
\* loop and without recording an answer, the failure leaves display and
\* Quiz.run, no later question is displayed, no report is printed, and the
\* score keeps only what the questions completed before had earned.
C15_EndOfInputPropagates ==
  []C15_AfterEndOfInput /\ [][C15_EndOfInputStep]_vars

\* C15 witness: the stream ended while the second question was prompting
\* again after one rejected line; the first question's point is kept.
C15_Witness ==
  /\ pc = "failed" /\ error = "EOFError"
  /\ idx = 2 /\ nErr = 1 /\ score = 1 /\ Len(questions) = 2

(* ------------------------------- C16 ---------------------------------- *)

ChoiceOnDisplay ==
  pc \in {"prompt", "check"} /\ Current.kind = "MultipleChoice"

\* While a choice question prompts, it has printed its prompt text once and
\* one listing per line read; when its display has completed after k rejected
\* lines, it has printed the prompt text once and k + 1 listings.  A listing
\* holds the ordinals 1..N with the choices in list order.
C16_ListingCount ==
  ChoiceOnDisplay =>
    /\ nPrompt = 1
    /\ pc = "prompt" => (nList = nRead /\ nErr = nRead)
    /\ pc = "check" => (nList = nErr + 1 /\ nRead = nErr + 1)
    /\ nList >= 1 =>
         /\ Len(listing) = Len(Current.choices)
         /\ \A k \in 1..Len(listing) :
              /\ listing[k].ordinal = k
              /\ listing[k].text = Current.choices[k]

\* Every line a choice question reads, accepted or rejected, comes after one
\* more listing and no further prompt text.
C16_ListingStep ==
  (pc = "prompt" /\ Current.kind = "MultipleChoice" /\ nRead' = nRead + 1) =>
    /\ nList' = nList + 1
    /\ nPrompt' = nPrompt

\* C16: within one display of a MultipleChoiceQuestion that gets k invalid
\* lines before a valid one, the prompt text is printed exactly once and the
\* numbered choice listing k + 1 times, once before every input prompt.
C16_ListingPerPrompt == []C16_ListingCount /\ [][C16_ListingStep]_vars

\* C16 witness: a three-choice question completed after two rejected lines,
\* with one prompt text and three listings printed.
C16_Witness ==
  /\ pc = "check" /\ Current.kind = "MultipleChoice"
  /\ Len(Current.choices) = 3
  /\ nErr = 2 /\ nList = 3 /\ nPrompt = 1

====
